---- MODULE Spec2Model ----
(***************************************************************************)
(* Model of monoio's runtime builder (src/monoio/src/builder.rs) and of    *)
(* the passthrough command operation                                       *)
(* (src/monoio/src/driver/op/cmd_passthrough.rs).                          *)
(*                                                                         *)
(* The builder is modelled for the feature set in which every field and    *)
(* every branch exists: target_os = "linux", features "iouring", "legacy"  *)
(* and "sync".                                                             *)
(*                                                                         *)
(* Three specifications share the module:                                  *)
(*   Spec     the builder: configuration calls and the steps of build()    *)
(*   SpecFd   SharedFd clones held by owners and by Cmd operations         *)
(*   SpecCmd  Cmd::uring_op / Cmd::uring_op_wide applied to a Cmd          *)
(* Option<T> values are sets: {} is None and {x} is Some(x).               *)
(***************************************************************************)
EXTENDS Integers, Sequences, FiniteSets, TLC

VARIABLES
    \* ---- builder.rs ----
    env_uring,        \* the environment: does the kernel offer the completion ring
    builder,          \* Option<RuntimeBuilder>: the builder being configured ({} once moved)
    pc,               \* position inside the configuration / build() call
    frames,           \* the builders of the nested build calls, outermost first
    probes,           \* detect_uring() calls made by the current build
    probed,           \* Option<bool>: what the probe of the current build returned
    next_id,          \* utils::thread_id counter behind gen_id()
    thread_id,        \* Option<usize>: the local thread_id of the backend build
    BUILD_THREAD_ID,  \* Option<usize>: the scoped thread-local binding
    ctor,             \* Option<outcome>: what the backend constructor returned
    driver,           \* Option<driver>: the driver constructed so far
    context,          \* Option<Context>: the Context constructed so far
    tag,              \* Option<tag>: the FusionRuntime variant produced
    result,           \* Option<io::Result>: what build() returned
    builds,           \* number of builders created so far
    prevFused,        \* Option<backend>: backend selected by the previous fused build
    steps,            \* the steps the current build has run, in order
    tried,            \* the backends whose constructor the current build has called
    prevId,           \* Option<usize>: the thread identifier of the previous build
    \* ---- history of the configuration calls (not program state) ----
    lastE,            \* Option<u32>: argument of the last with_entries call
    lastUrb,          \* argument of the last uring_builder call ("default" if none)
    lastBlk,          \* Option<call>: the last attach_thread_pool/with_blocking_strategy call
    overwrote,        \* the last blocking call replaced a setting made by the other call
    cfgBefore,        \* a configuration call was made before the timer transformation
    cfgAfter,         \* a configuration call was made after the timer transformation
    \* ---- SharedFd and Op<Cmd<T>> ----
    fd,               \* the descriptor and the shared count of its SharedFd
    owners,           \* SharedFd clones held by application code
    ops,              \* the operations issued with issue_cmd
    \* ---- Cmd<T> entry construction ----
    cmd,              \* the Cmd under conversion
    called,           \* "", "uring_op" or "uring_op_wide": the conversion last called
    entry,            \* Option<entry>: the submission entry that call returned
    panicked,         \* that call panicked (failed assertion, unimplemented!())
    ret,              \* Option<value>: what a legacy_interest / legacy_call call returned
    live,             \* the live backend of the runtime that drives the Cmd
    stage             \* how far that runtime has driven the Cmd's operation

builderVars == <<env_uring, builder, pc, frames, probes, probed, next_id, thread_id,
                 BUILD_THREAD_ID, ctor, driver, context, tag, result, builds, prevFused,
                 steps, tried, prevId, lastE, lastUrb, lastBlk, overwrote, cfgBefore, cfgAfter>>
fdVars == <<fd, owners, ops>>
cmdVars == <<cmd, called, entry, panicked, ret, live, stage>>
vars == <<builderVars, fdVars, cmdVars>>

\* ------------------------------------------------------------------ bounds

MaxBuilds == 2
MaxOwners == 2
MaxOps == 3

\* ------------------------------------------------------- builder: data

None == {}
Some(x) == {x}
Unwrap(o) == CHOOSE x \in o : TRUE

MIN_ENTRIES == 256

\* u32 arguments of with_entries: 0, both sides of MIN_ENTRIES, the documented
\* default and a large depth (the largest integer TLC represents; with_entries
\* only compares its argument, so no arithmetic can wrap)
EntriesArgs == {0, 255, 256, 1024, 2147483647}
\* io_uring::Builder values: the default one and a replacement
UrbArgs == {"custom"}
ThreadPools == {"tp1", "tp2"}
BlockingStrategy == {"Panic", "ExecuteLocal"}
\* io::Error values a backend constructor may return
IoErrors == {"EPERM", "ENOMEM"}
BaseDrivers == {"LegacyDriver", "IoUringDriver", "FusionDriver"}

Empty(strategy) == [tag |-> "Empty", arg |-> strategy]
Attached(tp) == [tag |-> "Attached", arg |-> tp]

Mark(time, base) == [time |-> time, base |-> base]

\* the driver kinds a builder can be created for: D and TimeDriver<D>
DriverKinds == {Mark(time, base) : time \in BOOLEAN, base \in BaseDrivers}

\* RuntimeBuilder::<D>::new()
new(D) ==
    [entries |-> None,
     urb |-> "default",
     blocking_handle |-> Empty("Panic"),
     mark |-> D]

\* with_entries without the floor: the requested depth is stored as given
with_entries_unclamped(b, e) == [b EXCEPT !.entries = Some(e)]

with_entries(b, e) ==
    IF e < MIN_ENTRIES
    THEN [b EXCEPT !.entries = Some(MIN_ENTRIES)]
    ELSE [b EXCEPT !.entries = Some(e)]

\* uring_builder that also forgets the requested ring depth
uring_builder_resets_entries(b, urb) == [b EXCEPT !.urb = urb, !.entries = None]

\* self.urb = urb
uring_builder(b, urb) == [b EXCEPT !.urb = urb]

attach_thread_pool(b, tp) == [b EXCEPT !.blocking_handle = Attached(tp)]

\* with_blocking_strategy that leaves an attached thread pool in place
with_blocking_strategy_keeps_pool(b, strategy) ==
    IF b.blocking_handle.tag = "Attached"
    THEN b
    ELSE [b EXCEPT !.blocking_handle = Empty(strategy)]

with_blocking_strategy(b, strategy) == [b EXCEPT !.blocking_handle = Empty(strategy)]

\* TimeWrapable is implemented for IoUringDriver, LegacyDriver and FusionDriver only
TimeWrapable(mark) == ~mark.time /\ mark.base \in BaseDrivers

\* enable_timer that starts the wrapped builder from the default configuration
enable_timer_resets(b) ==
    [entries |-> None,
     urb |-> "default",
     blocking_handle |-> Empty("Panic"),
     mark |-> Mark(TRUE, b.mark.base)]

enable_timer(b) ==
    [entries |-> b.entries,
     urb |-> b.urb,
     blocking_handle |-> b.blocking_handle,
     mark |-> Mark(TRUE, b.mark.base)]

enable_all(b) == enable_timer(b)

\* ------------------------------------------------- builder: build steps

\* crate::utils::detect_uring(): the probe reports what the environment offers
detect_uring == env_uring

\* crate::utils::thread_id::gen_id(): a fresh identifier per call
gen_id == next_id

\* a fused build that takes the ring whenever a ring depth was configured
FusionConcrete_by_entries(self, uring) ==
    [entries |-> self.entries,
     urb |-> self.urb,
     blocking_handle |-> self.blocking_handle,
     mark |-> Mark(FALSE, IF self.entries # None THEN "IoUringDriver" ELSE "LegacyDriver")]

\* RuntimeBuilder<FusionDriver>::build: the concrete builder of the winning backend
FusionConcrete(self, uring) ==
    IF uring
    THEN [entries |-> self.entries,
          urb |-> self.urb,
          blocking_handle |-> self.blocking_handle,
          mark |-> Mark(FALSE, "IoUringDriver")]
    ELSE [entries |-> self.entries,
          urb |-> self.urb,
          blocking_handle |-> self.blocking_handle,
          mark |-> Mark(FALSE, "LegacyDriver")]

\* RuntimeBuilder<TimeDriver<FusionDriver>>::build: the concrete builder
TimeFusionConcrete(self, uring) ==
    IF uring
    THEN [entries |-> self.entries,
          urb |-> self.urb,
          blocking_handle |-> self.blocking_handle,
          mark |-> Mark(TRUE, "IoUringDriver")]
    ELSE [entries |-> self.entries,
          urb |-> self.urb,
          blocking_handle |-> self.blocking_handle,
          mark |-> Mark(TRUE, "LegacyDriver")]

\* an inner builder that forgets the blocking configuration
TimeInnerBuilder_default_blocking(this) ==
    [entries |-> this.entries,
     urb |-> this.urb,
     blocking_handle |-> Empty("Panic"),
     mark |-> Mark(FALSE, this.mark.base)]

\* Buildable for TimeDriver<D>: the RuntimeBuilder::<D> handed to D's build
TimeInnerBuilder(this) ==
    [entries |-> this.entries,
     urb |-> this.urb,
     blocking_handle |-> this.blocking_handle,
     mark |-> Mark(FALSE, this.mark.base)]

\* LegacyDriver::new_with_entries(entries) / LegacyDriver::new()
LegacyDriverNew(this, tls) ==
    [kind |-> "legacy", entries |-> this.entries, urb |-> "unused",
     tid |-> tls, timer |-> None]

\* IoUringDriver::new_with_entries(&this.urb, entries) / IoUringDriver::new(&this.urb)
IoUringDriverNew(this, tls) ==
    [kind |-> "uring", entries |-> this.entries, urb |-> this.urb,
     tid |-> tls, timer |-> None]

\* a driver constructed outside the BUILD_THREAD_ID scope: it sees no binding
DriverNew_outside_scope(this, tls) ==
    IF this.mark.base = "LegacyDriver"
    THEN LegacyDriverNew(this, None)
    ELSE IoUringDriverNew(this, None)

\* D::new / D::new_with_entries called inside BUILD_THREAD_ID.set(&thread_id, || ..)
DriverNew(this, tls) ==
    IF this.mark.base = "LegacyDriver"
    THEN LegacyDriverNew(this, tls)
    ELSE IoUringDriverNew(this, tls)

\* crate::runtime::Context::new(blocking_handle)
ContextNew(blocking_handle, tls) ==
    [blocking_handle |-> blocking_handle, time_handle |-> None, thread_id |-> tls]

\* TimeDriver::new(driver, Clock::new()): the driver wrapped, with its own handle
TimeDriverNew(d, handle) == [d EXCEPT !.timer = Some(handle)]

\* a decoration step that never installs the handle
InstallTimeHandle_skipped(c, timer_driver) == c

\* context.time_handle = Some(timer_driver.handle.clone())
InstallTimeHandle(c, timer_driver) == [c EXCEPT !.time_handle = timer_driver.timer]

\* From<Runtime<D>> for FusionRuntime: the variant is fixed by the concrete driver type
FusionTag(mark) == IF mark.base = "IoUringDriver" THEN "uring" ELSE "legacy"

Ok == [ok |-> TRUE, err |-> ""]
Err(e) == [ok |-> FALSE, err |-> e]

Top == frames[1]
Cur == frames[Len(frames)]
Fused == Top.mark.base = "FusionDriver"
Timed == Top.mark.time

\* where build() starts for a builder of the given driver kind
BuildEntry(mark) ==
    IF mark.base = "FusionDriver" THEN "probe"
    ELSE IF mark.time THEN "time_inner"
    ELSE "backend_enter"

\* a constructor error that is not propagated
AfterCtor_ignores_error(outcome) == "backend_ctx"

\* a failed constructor after which the build starts the backend again
AfterCtor_retries(outcome) == IF outcome = "Ok" THEN "backend_ctx" ELSE "backend_enter"

\* the `?` after the backend constructor: an error leaves the build at once
AfterCtor(outcome) == IF outcome = "Ok" THEN "backend_ctx" ELSE "done"

\* a fused build that converts the backend's Runtime before decorating it
AfterBackend_into_first == IF Fused THEN "fusion_into" ELSE IF Timed THEN "time_new" ELSE "done"

\* where the Ok(Runtime) of the backend build returns to
AfterBackend == IF Timed THEN "time_new" ELSE IF Fused THEN "fusion_into" ELSE "done"

\* where the Ok(Runtime) of TimeDriver's build returns to
AfterTime == IF Fused THEN "fusion_into" ELSE "done"

\* ------------------------------------------------- builder: the state machine

\* one SharedFd owned by the application, no operation issued
FdIdle ==
    /\ fd = [open |-> TRUE, strong |-> 1, closes |-> 0]
    /\ owners = 1
    /\ ops = [i \in 1..MaxOps |-> [state |-> "none", fd |-> FALSE]]
CmdIdle ==
    /\ cmd = [fd |-> 0, cmd_op |-> 0, cmd |-> <<>>]
    /\ called = ""
    /\ entry = None
    /\ panicked = FALSE
    /\ ret = None
    /\ live = "uring"
    /\ stage = "submitted"

\* the locals of a build() call before it starts
NoBuild ==
    /\ frames = <<>>
    /\ probes = 0
    /\ probed = None
    /\ thread_id = None
    /\ BUILD_THREAD_ID = None
    /\ ctor = None
    /\ driver = None
    /\ context = None
    /\ tag = None
    /\ result = None
    /\ steps = <<>>
    /\ tried = {}

NoCalls ==
    /\ lastE = None
    /\ lastUrb = "default"
    /\ lastBlk = None
    /\ overwrote = FALSE
    /\ cfgBefore = FALSE
    /\ cfgAfter = FALSE

Init ==
    /\ env_uring \in BOOLEAN
    /\ \E D \in DriverKinds : builder = Some(new(D))
    /\ pc = "config"
    /\ next_id = 1
    /\ builds = 1
    /\ prevFused = None
    /\ prevId = None
    /\ NoBuild
    /\ NoCalls
    /\ FdIdle
    /\ CmdIdle

\* the builder part of the state in the specifications that do not run it
BuilderIdle ==
    /\ env_uring = TRUE
    /\ builder = Some(new(Mark(FALSE, "IoUringDriver")))
    /\ pc = "config"
    /\ next_id = 1
    /\ builds = 1
    /\ prevFused = None
    /\ prevId = None
    /\ NoBuild
    /\ NoCalls

buildLocals == <<frames, probes, probed, next_id, thread_id, BUILD_THREAD_ID, ctor, driver,
                 context, tag, result, builds, prevFused, steps, tried, prevId>>

\* a configuration call is noted as made before or after the timer transformation
NoteCall ==
    IF Unwrap(builder).mark.time
    THEN cfgAfter' = TRUE /\ UNCHANGED cfgBefore
    ELSE cfgBefore' = TRUE /\ UNCHANGED cfgAfter

Configuring == pc = "config" /\ builder # None

WithEntries ==
    /\ Configuring
    /\ \E e \in EntriesArgs :
        /\ builder' = Some(with_entries(Unwrap(builder), e))
        /\ lastE' = Some(e)
    /\ NoteCall
    /\ UNCHANGED <<env_uring, pc, buildLocals, lastUrb, lastBlk, overwrote, fdVars, cmdVars>>

UringBuilder ==
    /\ Configuring
    /\ \E urb \in UrbArgs :
        /\ builder' = Some(uring_builder(Unwrap(builder), urb))
        /\ lastUrb' = urb
    /\ NoteCall
    /\ UNCHANGED <<env_uring, pc, buildLocals, lastE, lastBlk, overwrote, fdVars, cmdVars>>

AttachThreadPool ==
    /\ Configuring
    /\ \E tp \in ThreadPools :
        /\ builder' = Some(attach_thread_pool(Unwrap(builder), tp))
        /\ lastBlk' = Some([call |-> "attach_thread_pool", arg |-> tp])
    /\ overwrote' = (lastBlk # None /\ Unwrap(lastBlk).call = "with_blocking_strategy")
    /\ NoteCall
    /\ UNCHANGED <<env_uring, pc, buildLocals, lastE, lastUrb, fdVars, cmdVars>>

WithBlockingStrategy ==
    /\ Configuring
    /\ \E strategy \in BlockingStrategy :
        /\ builder' = Some(with_blocking_strategy(Unwrap(builder), strategy))
        /\ lastBlk' = Some([call |-> "with_blocking_strategy", arg |-> strategy])
    /\ overwrote' = (lastBlk # None /\ Unwrap(lastBlk).call = "attach_thread_pool")
    /\ NoteCall
    /\ UNCHANGED <<env_uring, pc, buildLocals, lastE, lastUrb, fdVars, cmdVars>>

EnableTimer ==
    /\ Configuring
    /\ TimeWrapable(Unwrap(builder).mark)
    /\ builder' = Some(enable_timer(Unwrap(builder)))
    /\ UNCHANGED <<env_uring, pc, buildLocals, lastE, lastUrb, lastBlk, overwrote,
                   cfgBefore, cfgAfter, fdVars, cmdVars>>

EnableAll ==
    /\ Configuring
    /\ TimeWrapable(Unwrap(builder).mark)
    /\ builder' = Some(enable_all(Unwrap(builder)))
    /\ UNCHANGED <<env_uring, pc, buildLocals, lastE, lastUrb, lastBlk, overwrote,
                   cfgBefore, cfgAfter, fdVars, cmdVars>>

calls == <<lastE, lastUrb, lastBlk, overwrote, cfgBefore, cfgAfter>>

\* the terminal build(self): the builder is moved into the call
Build ==
    /\ Configuring
    /\ frames' = <<Unwrap(builder)>>
    /\ builder' = None
    /\ pc' = BuildEntry(Unwrap(builder).mark)
    /\ UNCHANGED <<env_uring, probes, probed, next_id, thread_id, BUILD_THREAD_ID, ctor, driver,
                   context, tag, result, builds, prevFused, calls, fdVars, cmdVars, steps,
                   tried, prevId>>

\* RuntimeBuilder<FusionDriver>::build up to builder.build()
FusionBuild ==
    /\ pc = "probe"
    /\ ~Timed
    /\ probes' = probes + 1
    /\ probed' = Some(detect_uring)
    /\ frames' = Append(frames, FusionConcrete(Cur, detect_uring))
    /\ pc' = "backend_enter"
    /\ steps' = Append(steps, "probe")
    /\ UNCHANGED <<env_uring, builder, next_id, thread_id, BUILD_THREAD_ID, ctor, driver,
                   context, tag, result, builds, prevFused, calls, fdVars, cmdVars, tried, prevId>>

\* RuntimeBuilder<TimeDriver<FusionDriver>>::build up to builder.build()
TimeFusionBuild ==
    /\ pc = "probe"
    /\ Timed
    /\ probes' = probes + 1
    /\ probed' = Some(detect_uring)
    /\ frames' = Append(frames, TimeFusionConcrete(Cur, detect_uring))
    /\ pc' = "time_inner"
    /\ steps' = Append(steps, "probe")
    /\ UNCHANGED <<env_uring, builder, next_id, thread_id, BUILD_THREAD_ID, ctor, driver,
                   context, tag, result, builds, prevFused, calls, fdVars, cmdVars, tried, prevId>>

\* Buildable for TimeDriver<D>::build up to Buildable::build(RuntimeBuilder::<D> {..})
TimeBuildInner ==
    /\ pc = "time_inner"
    /\ frames' = Append(frames, TimeInnerBuilder(Cur))
    /\ pc' = "backend_enter"
    /\ steps' = Append(steps, "inner")
    /\ UNCHANGED <<env_uring, builder, probes, probed, next_id, thread_id,
                   BUILD_THREAD_ID, ctor, driver, context, tag, result, builds, prevFused,
                   calls, fdVars, cmdVars, tried, prevId>>

\* Buildable for LegacyDriver / IoUringDriver: gen_id() and BUILD_THREAD_ID.set(&thread_id, ..)
BackendEnter(D) ==
    /\ pc = "backend_enter"
    /\ Cur.mark = Mark(FALSE, D)
    /\ thread_id' = Some(gen_id)
    /\ next_id' = next_id + 1
    /\ BUILD_THREAD_ID' = Some(gen_id)
    /\ pc' = "backend_ctor"
    /\ steps' = Append(steps, "bind")
    /\ UNCHANGED <<env_uring, builder, frames, probes, probed, ctor, driver, context, tag,
                   result, builds, prevFused, calls, fdVars, cmdVars, tried, prevId>>

\* the driver constructor inside the scope; on Err the scope is left and every
\* caller's `?` hands the same error on
BackendCtor(D) ==
    /\ pc = "backend_ctor"
    /\ Cur.mark = Mark(FALSE, D)
    /\ \E outcome \in {"Ok"} \cup IoErrors :
        /\ ctor' = Some(outcome)
        /\ pc' = AfterCtor(outcome)
        /\ IF outcome = "Ok"
           THEN /\ driver' = Some(DriverNew(Cur, BUILD_THREAD_ID))
                /\ UNCHANGED <<BUILD_THREAD_ID, result>>
           ELSE /\ driver' = None
                /\ BUILD_THREAD_ID' = None
                /\ result' = Some(Err(outcome))
    /\ steps' = Append(steps, "ctor")
    /\ tried' = tried \cup {D}
    /\ UNCHANGED <<env_uring, builder, frames, probes, probed, next_id, thread_id,
                   context, tag, builds, prevFused, prevId, calls, fdVars, cmdVars>>

\* Context::new(blocking_handle), Ok(Runtime::new(context, driver)), the scope is left
BackendContext(D) ==
    /\ pc = "backend_ctx"
    /\ Cur.mark = Mark(FALSE, D)
    /\ context' = Some(ContextNew(Cur.blocking_handle, BUILD_THREAD_ID))
    /\ BUILD_THREAD_ID' = None
    /\ pc' = AfterBackend
    /\ result' = IF AfterBackend = "done" THEN Some(Ok) ELSE result
    /\ steps' = Append(steps, "context")
    /\ UNCHANGED <<env_uring, builder, frames, probes, probed, next_id, thread_id,
                   ctor, driver, tag, builds, prevFused, calls, fdVars, cmdVars, tried, prevId>>

\* TimeDriver::new(driver, Clock::new())
TimeBuildNew ==
    /\ pc = "time_new"
    /\ driver' = Some(TimeDriverNew(Unwrap(driver), builds))
    /\ pc' = "time_install"
    /\ steps' = Append(steps, "timer")
    /\ UNCHANGED <<env_uring, builder, frames, probes, probed, next_id, thread_id,
                   BUILD_THREAD_ID, ctor, context, tag, result, builds, prevFused, calls,
                   fdVars, cmdVars, tried, prevId>>

\* context.time_handle = Some(..); Ok(Runtime { driver: timer_driver, context })
TimeBuildInstall ==
    /\ pc = "time_install"
    /\ context' = Some(InstallTimeHandle(Unwrap(context), Unwrap(driver)))
    /\ pc' = AfterTime
    /\ result' = IF AfterTime = "done" THEN Some(Ok) ELSE result
    /\ steps' = Append(steps, "install")
    /\ UNCHANGED <<env_uring, builder, frames, probes, probed, next_id, thread_id,
                   BUILD_THREAD_ID, ctor, driver, tag, builds, prevFused, calls, fdVars,
                   cmdVars, tried, prevId>>

\* Ok(builder.build()?.into()) of the two fused builds
FusionInto ==
    /\ pc = "fusion_into"
    /\ tag' = Some(FusionTag(frames[2].mark))
    /\ result' = Some(Ok)
    /\ pc' = "done"
    /\ steps' = Append(steps, "into")
    /\ UNCHANGED <<env_uring, builder, frames, probes, probed, next_id, thread_id,
                   BUILD_THREAD_ID, ctor, driver, context, builds, prevFused, calls,
                   fdVars, cmdVars, tried, prevId>>

\* the backend a finished fused build selected
Selected == IF frames[2].mark.base = "IoUringDriver" THEN "uring" ELSE "legacy"

\* the program goes on to configure another builder
NewBuilder ==
    /\ pc = "done"
    /\ builds < MaxBuilds
    /\ \E D \in DriverKinds : builder' = Some(new(D))
    /\ pc' = "config"
    /\ builds' = builds + 1
    /\ prevFused' = IF Fused THEN Some(Selected) ELSE prevFused
    /\ frames' = <<>>
    /\ probes' = 0
    /\ probed' = None
    /\ thread_id' = None
    /\ BUILD_THREAD_ID' = None
    /\ ctor' = None
    /\ driver' = None
    /\ context' = None
    /\ tag' = None
    /\ result' = None
    /\ steps' = <<>>
    /\ tried' = {}
    /\ prevId' = thread_id
    /\ lastE' = None
    /\ lastUrb' = "default"
    /\ lastBlk' = None
    /\ overwrote' = FALSE
    /\ cfgBefore' = FALSE
    /\ cfgAfter' = FALSE
    /\ UNCHANGED <<env_uring, next_id, fdVars, cmdVars>>

Next ==
    \/ WithEntries
    \/ UringBuilder
    \/ AttachThreadPool
    \/ WithBlockingStrategy
    \/ EnableTimer
    \/ EnableAll
    \/ Build
    \/ FusionBuild
    \/ TimeFusionBuild
    \/ TimeBuildInner
    \/ BackendEnter("LegacyDriver")
    \/ BackendEnter("IoUringDriver")
    \/ BackendCtor("LegacyDriver")
    \/ BackendCtor("IoUringDriver")
    \/ BackendContext("LegacyDriver")
    \/ BackendContext("IoUringDriver")
    \/ TimeBuildNew
    \/ TimeBuildInstall
    \/ FusionInto
    \/ NewBuilder

Spec == Init /\ [][Next]_vars

\* ------------------------------------------------- builder: the claims

Max(a, b) == IF a >= b THEN a ELSE b

\* what the configuration calls made so far ask for
ExpectedEntries == IF lastE = None THEN None ELSE Some(Max(Unwrap(lastE), 256))
ExpectedBlocking ==
    IF lastBlk = None THEN Empty("Panic")
    ELSE IF Unwrap(lastBlk).call = "attach_thread_pool" THEN Attached(Unwrap(lastBlk).arg)
    ELSE Empty(Unwrap(lastBlk).arg)

SameConfig(a, b) ==
    /\ a.entries = b.entries
    /\ a.urb = b.urb
    /\ a.blocking_handle = b.blocking_handle

Built == pc = "done" /\ result = Some(Ok)

\* C2: after any sequence of attach_thread_pool / with_blocking_strategy calls the
\* builder, and the Context built from it, hold the blocking configuration of the
\* last such call; with no such call they hold Empty(Panic).
C2_LastBlockingCallWins ==
    /\ builder # None => Unwrap(builder).blocking_handle = ExpectedBlocking
    /\ context # None => Unwrap(context).blocking_handle = ExpectedBlocking

\* a strategy set after a thread pool was attached reaches the built Context
C2_Witness ==
    /\ Built
    /\ overwrote
    /\ lastBlk = Some([call |-> "with_blocking_strategy", arg |-> "ExecuteLocal"])
    /\ Unwrap(context).blocking_handle = Empty("ExecuteLocal")

\* C3: entries is unset or max(e, 256) for the last with_entries(e), hence never
\* below 256, in the builder, in every builder build() derives from it and in the
\* depth handed to the backend constructor.
C3_EntriesClamped ==
    /\ builder # None =>
        /\ Unwrap(builder).entries = ExpectedEntries
        /\ \A v \in Unwrap(builder).entries : v >= 256
    /\ \A i \in 1..Len(frames) : frames[i].entries = ExpectedEntries
    /\ driver # None =>
        /\ Unwrap(driver).entries = ExpectedEntries
        /\ \A v \in Unwrap(driver).entries : v >= 256

\* a requested depth of 0 reaches the backend constructor as 256
C3_Witness ==
    /\ driver # None
    /\ lastE = Some(0)
    /\ Unwrap(driver).entries = Some(256)

\* C4: a built runtime has a timer handle in its Context exactly when its builder
\* was timer-wrapped, and then it is the handle of the returned timer driver.
C4_TimerHandleIffWrapped ==
    Built =>
        /\ Unwrap(context).time_handle # None <=> Timed
        /\ Unwrap(driver).timer # None <=> Timed
        /\ Timed => Unwrap(context).time_handle = Unwrap(driver).timer

\* a TimeDriver<FusionDriver> build resolved to the legacy backend holds a handle
C4_Witness ==
    /\ Built
    /\ Timed
    /\ Fused
    /\ Unwrap(driver).kind = "legacy"
    /\ Unwrap(context).time_handle = Some(builds)

\* C5: a fused build probes once, takes the ring backend exactly when the probe
\* reports it, constructs and tags that backend, and selects the same backend as
\* the fused build before it.
C5_FusionFollowsProbe ==
    (frames # <<>> /\ Fused) =>
        /\ pc = "probe" => probes = 0
        /\ pc # "probe" =>
            /\ probes = 1
            /\ Len(frames) >= 2
            /\ frames[2].mark.base = (IF Unwrap(probed) THEN "IoUringDriver" ELSE "LegacyDriver")
            /\ frames[2].mark.time = Timed
            /\ prevFused # None => Selected = Unwrap(prevFused)
        /\ driver # None => Unwrap(driver).kind = (IF Unwrap(probed) THEN "uring" ELSE "legacy")
        /\ tag # None => tag = Some(Unwrap(driver).kind)

\* a second fused build, configured differently, ends on the same backend
C5_Witness ==
    /\ Built
    /\ Fused
    /\ prevFused = Some("legacy")
    /\ tag = Some("legacy")
    /\ lastE # None

\* C6: enable_timer and enable_all agree on every builder and change only the
\* driver-kind marker; configuration made before and after the transformation
\* reaches the built runtime.
C6_EnableTimerKeepsConfig ==
    /\ (Configuring /\ TimeWrapable(Unwrap(builder).mark)) =>
        LET b == Unwrap(builder) IN
        /\ enable_all(b) = enable_timer(b)
        /\ SameConfig(enable_timer(b), b)
        /\ enable_timer(b).mark = Mark(TRUE, b.mark.base)
    /\ (builder # None /\ Unwrap(builder).mark.time) =>
        /\ Unwrap(builder).entries = ExpectedEntries
        /\ Unwrap(builder).urb = lastUrb
        /\ Unwrap(builder).blocking_handle = ExpectedBlocking
    /\ (Built /\ Timed) =>
        /\ Unwrap(driver).entries = ExpectedEntries
        /\ Unwrap(driver).kind = "uring" => Unwrap(driver).urb = lastUrb
        /\ Unwrap(context).blocking_handle = ExpectedBlocking

\* a depth set before enable_timer and a pool attached after it both reach the runtime
C6_Witness ==
    /\ Built
    /\ Timed
    /\ cfgBefore
    /\ cfgAfter
    /\ Unwrap(driver).entries = Some(1024)
    /\ Unwrap(context).blocking_handle = Attached("tp2")

\* C7: every builder a build derives (the concrete builder of a fused build, the
\* inner builder of TimeDriver's build) carries the entries, ring options and
\* blocking configuration of the builder build() was called on, and these are what
\* the backend constructor and the Context receive.
C7_DerivedBuildersCarryConfig ==
    /\ \A i \in 1..Len(frames) : SameConfig(frames[i], frames[1])
    /\ frames # <<>> =>
        /\ Top.entries = ExpectedEntries
        /\ Top.urb = lastUrb
        /\ Top.blocking_handle = ExpectedBlocking
    /\ driver # None =>
        /\ Unwrap(driver).entries = Top.entries
        /\ Unwrap(driver).kind = "uring" => Unwrap(driver).urb = Top.urb
    /\ context # None => Unwrap(context).blocking_handle = Top.blocking_handle

\* a fully configured timer-wrapped fused build, resolved to the ring backend
C7_Witness ==
    /\ Built
    /\ Fused
    /\ Timed
    /\ Len(frames) = 3
    /\ Top.entries = Some(256)
    /\ Top.urb = "custom"
    /\ Top.blocking_handle = Attached("tp1")
    /\ Unwrap(driver).kind = "uring"
    /\ Unwrap(driver).urb = "custom"

\* C8: a build ends in exactly one of a complete Runtime or the constructor's own
\* error; after a constructor error there is no driver, no Context, no timer
\* driver, no timer handle and no FusionRuntime value.
C8_BuildIsAllOrNothing ==
    /\ pc # "done" => result = None
    /\ pc = "done" =>
        /\ result # None
        /\ ctor # None
        /\ Unwrap(result).ok <=> ctor = Some("Ok")
        /\ Unwrap(result).ok =>
            /\ driver # None
            /\ context # None
            /\ Timed => (Unwrap(driver).timer # None /\ Unwrap(context).time_handle # None)
            /\ Fused => tag # None
        /\ ~Unwrap(result).ok =>
            /\ Unwrap(result).err \in IoErrors
            /\ ctor = Some(Unwrap(result).err)
            /\ driver = None
            /\ context = None
            /\ tag = None
            /\ BUILD_THREAD_ID = None

\* a timer-wrapped fused build whose ring constructor failed with ENOMEM
C8_Witness ==
    /\ pc = "done"
    /\ Fused
    /\ Timed
    /\ Len(frames) = 3
    /\ ctor = Some("ENOMEM")
    /\ result = Some(Err("ENOMEM"))
    /\ Cur.mark.base = "IoUringDriver"

IsPrefix(s, t) == Len(s) <= Len(t) /\ \A i \in 1..Len(s) : s[i] = t[i]

\* the steps of a successful build of the given kind, in program order
Plan(mark) ==
    (IF mark.base = "FusionDriver" THEN <<"probe">> ELSE <<>>)
    \o (IF mark.time THEN <<"inner">> ELSE <<>>)
    \o <<"bind", "ctor", "context">>
    \o (IF mark.time THEN <<"timer", "install">> ELSE <<>>)
    \o (IF mark.base = "FusionDriver" THEN <<"into">> ELSE <<>>)

Ran(step) == \E i \in 1..Len(steps) : steps[i] = step

\* C12: a build runs probe, then the backend's construction, then the timer
\* decoration, in that order and each step at most once: the probe has answered
\* before a backend constructor runs, the backend driver and its Context exist
\* before the timer driver is created, the handle is installed before the Runtime
\* is returned, and a failed constructor is the last step of its build.
C12_StepsInProgramOrder ==
    frames # <<>> =>
        /\ IsPrefix(steps, Plan(Top.mark))
        /\ (Ran("ctor") /\ Fused) => (probed # None /\ probes = 1)
        /\ Ran("timer") => (ctor = Some("Ok") /\ context # None /\ driver # None)
        /\ (driver # None /\ Unwrap(driver).timer # None) => Ran("context")
        /\ (result # None /\ Unwrap(result).ok) =>
              /\ steps = Plan(Top.mark)
              /\ Timed => Unwrap(context).time_handle = Unwrap(driver).timer
              /\ Timed => Unwrap(driver).timer # None
        /\ (ctor # None /\ Unwrap(ctor) # "Ok") =>
              /\ steps[Len(steps)] = "ctor"
              /\ pc = "done"
              /\ result = Some(Err(Unwrap(ctor)))

C12_Witness ==
    /\ Built
    /\ Fused
    /\ Timed
    /\ steps = <<"probe", "inner", "bind", "ctor", "context", "timer", "install", "into">>
    /\ Unwrap(context).time_handle # None

\* C14: BUILD_THREAD_ID is bound, to the identifier this build generated, exactly
\* while the backend's driver and Context are constructed: unbound before build is
\* called and in the steps before the backend's, bound for the constructor and for
\* Context::new, unbound after build returned Ok or Err and in the decoration
\* steps; the driver and Context carry this build's identifier, which differs from
\* the previous build's.
C14_BindingScopedToBackendBuild ==
    /\ (BUILD_THREAD_ID # None) <=> (pc \in {"backend_ctor", "backend_ctx"})
    /\ BUILD_THREAD_ID # None => BUILD_THREAD_ID = thread_id
    /\ frames = <<>> => (BUILD_THREAD_ID = None /\ thread_id = None)
    /\ result # None => BUILD_THREAD_ID = None
    /\ driver # None => (thread_id # None /\ Unwrap(driver).tid = thread_id)
    /\ context # None => (thread_id # None /\ Unwrap(context).thread_id = thread_id)
    /\ (prevId # None /\ thread_id # None) => prevId # thread_id

\* a second build whose constructor failed: it had its own identifier and the
\* binding is gone
C14_Witness ==
    /\ pc = "done"
    /\ ctor = Some("EPERM")
    /\ result = Some(Err("EPERM"))
    /\ prevId # None
    /\ thread_id # None
    /\ BUILD_THREAD_ID = None

CtorCalls == Cardinality({i \in 1..Len(steps) : steps[i] = "ctor"})

\* C15: in a fused build the only constructor ever called is the one the probe
\* chose: the readiness backend's only after the probe reported the ring
\* unavailable; when the probe reported the ring available and the ring's
\* constructor fails, the build ends with that error after this one constructor
\* call, with no driver and no readiness builder derived.
C15_NoFallbackAfterRingError ==
    (frames # <<>> /\ Fused) =>
        /\ tried # {} => probed # None
        /\ "LegacyDriver" \in tried => probed = Some(FALSE)
        /\ "IoUringDriver" \in tried => probed = Some(TRUE)
        /\ (driver # None /\ Unwrap(driver).kind = "legacy") => probed = Some(FALSE)
        /\ (probed = Some(TRUE) /\ ctor # None /\ Unwrap(ctor) # "Ok") =>
              /\ pc = "done"
              /\ result = Some(Err(Unwrap(ctor)))
              /\ tried = {"IoUringDriver"}
              /\ CtorCalls = 1
              /\ driver = None
              /\ tag = None
              /\ \A k \in 2..Len(frames) : frames[k].mark.base = "IoUringDriver"

\* the probe found the ring, the ring's constructor failed with EPERM, and the
\* fused build without timer returned that error
C15_Witness ==
    /\ pc = "done"
    /\ Fused
    /\ ~Timed
    /\ probed = Some(TRUE)
    /\ tried = {"IoUringDriver"}
    /\ ctor = Some("EPERM")
    /\ result = Some(Err("EPERM"))

\* the fields of b other than the named one are those of a
OnlyChanges(field, a, b) ==
    /\ b.mark = a.mark
    /\ field # "entries" => b.entries = a.entries
    /\ field # "urb" => b.urb = a.urb
    /\ field # "blocking_handle" => b.blocking_handle = a.blocking_handle

C16_FieldsFollowOwnCalls ==
    /\ builder # None =>
        /\ Unwrap(builder).entries = ExpectedEntries
        /\ Unwrap(builder).urb = lastUrb
        /\ Unwrap(builder).blocking_handle = ExpectedBlocking
    /\ Configuring =>
        LET b == Unwrap(builder) IN
        /\ \A e \in EntriesArgs : OnlyChanges("entries", b, with_entries(b, e))
        /\ \A u \in UrbArgs : OnlyChanges("urb", b, uring_builder(b, u))
        /\ \A tp \in ThreadPools :
              OnlyChanges("blocking_handle", b, attach_thread_pool(b, tp))
        /\ \A st \in BlockingStrategy :
              OnlyChanges("blocking_handle", b, with_blocking_strategy(b, st))

\* a configuration call changes the field it targets and no other
C16_CallFrame ==
    (Configuring /\ pc' = "config" /\ builder' # None) =>
        LET a == Unwrap(builder)
            b == Unwrap(builder') IN
        /\ lastE' # lastE => OnlyChanges("entries", a, b)
        /\ lastUrb' # lastUrb => OnlyChanges("urb", a, b)
        /\ lastBlk' # lastBlk => OnlyChanges("blocking_handle", a, b)
        /\ b.entries # a.entries => (lastUrb' = lastUrb /\ lastBlk' = lastBlk)
        /\ b.urb # a.urb => (lastE' = lastE /\ lastBlk' = lastBlk)
        /\ b.blocking_handle # a.blocking_handle => (lastE' = lastE /\ lastUrb' = lastUrb)

\* C16: with_entries changes only entries, uring_builder only the ring options,
\* attach_thread_pool and with_blocking_strategy only the blocking configuration;
\* so in every interleaving each field of the builder is what the calls that
\* target it made of it.
C16_FieldsIndependent == []C16_FieldsFollowOwnCalls /\ [][C16_CallFrame]_vars

\* all three fields were set, each by its own call, and each kept its value
C16_Witness ==
    /\ Configuring
    /\ lastE = Some(255)
    /\ lastUrb = "custom"
    /\ lastBlk # None
    /\ overwrote
    /\ Unwrap(builder).entries = Some(256)
    /\ Unwrap(builder).urb = "custom"
    /\ Unwrap(builder).blocking_handle = Attached("tp1")

\* ------------------------------------------------- SharedFd and Op<Cmd<T>>

\* SharedFd::clone: one more holder of the same descriptor
SharedFd_clone(f) == [f EXCEPT !.strong = @ + 1]

\* Drop for SharedFd: the last holder closes the descriptor
SharedFd_drop(f) ==
    IF f.strong = 1
    THEN [open |-> FALSE, strong |-> 0, closes |-> f.closes + 1]
    ELSE [f EXCEPT !.strong = @ - 1]

\* a Cmd that takes the descriptor without becoming a holder of it
CmdFd_uncounted(f) == f

\* Cmd { fd: fd.clone(), cmd_op, cmd }: the SharedFd after the Cmd took its clone
CmdFd(f) == SharedFd_clone(f)

\* clones held: by the application and by the Cmd of every live operation
Holders == owners + Cardinality({i \in 1..MaxOps : ops[i].fd})

OwnerClone ==
    /\ owners >= 1
    /\ owners < MaxOwners
    /\ fd' = SharedFd_clone(fd)
    /\ owners' = owners + 1
    /\ UNCHANGED <<ops, builderVars, cmdVars>>

OwnerDrop ==
    /\ owners >= 1
    /\ fd' = SharedFd_drop(fd)
    /\ owners' = owners - 1
    /\ UNCHANGED <<ops, builderVars, cmdVars>>

\* Op::issue_cmd(fd: &SharedFd, ..): the Cmd is constructed around fd.clone()
IssueCmd(i) ==
    /\ owners >= 1
    /\ ops[i].state = "none"
    /\ fd' = CmdFd(fd)
    /\ ops' = [ops EXCEPT ![i] = [state |-> "constructed", fd |-> TRUE]]
    /\ UNCHANGED <<owners, builderVars, cmdVars>>

\* Op::submit_with(cmd): Ok(Op) hands the entry to the backend, Err drops the Cmd
SubmitWith(i) ==
    /\ ops[i].state = "constructed"
    /\ \/ /\ ops' = [ops EXCEPT ![i].state = "submitted"]
          /\ UNCHANGED fd
       \/ /\ ops' = [ops EXCEPT ![i] = [state |-> "failed", fd |-> FALSE]]
          /\ fd' = SharedFd_drop(fd)
    /\ UNCHANGED <<owners, builderVars, cmdVars>>

\* the backend takes the submitted operation
Flight(i) ==
    /\ ops[i].state = "submitted"
    /\ ops' = [ops EXCEPT ![i].state = "inflight"]
    /\ UNCHANGED <<fd, owners, builderVars, cmdVars>>

\* the operation completes: the Op is destroyed and its Cmd's clone released
Complete(i) ==
    /\ ops[i].state = "inflight"
    /\ ops' = [ops EXCEPT ![i] = [state |-> "completed", fd |-> FALSE]]
    /\ fd' = SharedFd_drop(fd)
    /\ UNCHANGED <<owners, builderVars, cmdVars>>

\* the Op is dropped before completion: cancelled, its Cmd's clone released
DropOp(i) ==
    /\ ops[i].state = "inflight"
    /\ ops' = [ops EXCEPT ![i] = [state |-> "cancelled", fd |-> FALSE]]
    /\ fd' = SharedFd_drop(fd)
    /\ UNCHANGED <<owners, builderVars, cmdVars>>

InitFd == BuilderIdle /\ FdIdle /\ CmdIdle

NextFd ==
    \/ OwnerClone
    \/ OwnerDrop
    \/ \E i \in 1..MaxOps : IssueCmd(i)
    \/ \E i \in 1..MaxOps : SubmitWith(i)
    \/ \E i \in 1..MaxOps : Flight(i)
    \/ \E i \in 1..MaxOps : Complete(i)
    \/ \E i \in 1..MaxOps : DropOp(i)

SpecFd == InitFd /\ [][NextFd]_vars

\* C1: the descriptor is open in every state in which a clone is held (by an owner
\* or by the Cmd of an operation), and is closed, exactly once, as soon as no clone
\* is held; completion, cancellation and owner drop in any order keep this.
C1_OpenWhileHeldClosedOnce ==
    /\ Holders >= 1 => (fd.open /\ fd.closes = 0)
    /\ Holders = 0 => (~fd.open /\ fd.closes = 1)
    /\ fd.strong = Holders

\* every owner is gone and one operation was cancelled, yet an in-flight Cmd
\* keeps the descriptor open
C1_Witness ==
    /\ owners = 0
    /\ \E i \in 1..MaxOps : ops[i].state = "cancelled"
    /\ \E i \in 1..MaxOps : ops[i].state = "inflight"
    /\ Holders = 1
    /\ fd.open

\* the states in which the Op exists and has neither completed nor been cancelled
HeldStates == {"constructed", "submitted", "inflight"}

\* one step of one operation's life; constructed -> failed is issue_cmd returning
\* the Err of submit_with, after which no Op exists
LifecycleStep(a, b) ==
    \/ a = b
    \/ <<a, b>> \in {<<"none", "constructed">>, <<"constructed", "submitted">>,
                     <<"constructed", "failed">>, <<"submitted", "inflight">>,
                     <<"inflight", "completed">>, <<"inflight", "cancelled">>}

C13_CloneHeldWhileAlive ==
    /\ fd.strong = owners + Cardinality({i \in 1..MaxOps : ops[i].state \in HeldStates})
    /\ \A i \in 1..MaxOps :
          /\ ops[i].state \in HeldStates => (ops[i].fd /\ fd.open /\ fd.closes = 0)
          /\ ops[i].state \in {"completed", "cancelled"} => ~ops[i].fd

C13_Steps ==
    \A i \in 1..MaxOps :
        /\ LifecycleStep(ops[i].state, ops'[i].state)
        /\ (ops'[i].state \in {"completed", "cancelled"} /\ ops[i].state # ops'[i].state)
              => (ops[i].state = "inflight" /\ ops[i].fd /\ fd'.strong = fd.strong - 1)
        /\ (ops[i].state \in {"submitted", "inflight"} /\ ops'[i].state \in HeldStates)
              => (ops'[i].fd /\ fd'.open)

\* C13: an Op of issue_cmd goes constructed -> submitted -> in-flight -> completed
\* or cancelled, reaching the last two only from in-flight; the clone its Cmd took
\* is counted on the SharedFd in every state before that and is released in the
\* very step that completes or cancels the operation.
C13_OpLifecycle == []C13_CloneHeldWhileAlive /\ [][C13_Steps]_vars

\* one operation completed, one was cancelled, and the third is in flight with
\* the only clone left
C13_Witness ==
    /\ \E i \in 1..MaxOps : ops[i].state = "completed"
    /\ \E i \in 1..MaxOps : ops[i].state = "cancelled"
    /\ \E i \in 1..MaxOps : ops[i].state = "inflight" /\ ops[i].fd
    /\ owners = 0
    /\ fd.strong = 1

\* ------------------------------------------------- Cmd<T>: submission entries

\* size_of::<T>() of the payloads tried: empty, inside and on both sides of the
\* narrow (16) and wide (80) regions
CmdSizes == {0, 1, 8, 15, 16, 17, 20, 79, 80, 81}
\* the payload's bytes are (seed + 7 * i) % 256 at offset i
CmdSeeds == {1, 130}
RawFds == {3, 9}
CmdOps == {0, 2147483647}
\* what an uninitialised byte of the union may read as
JunkBytes == {0, 170}

Payload(size, seed) == [i \in 1..size |-> (seed + 7 * i) % 256]

size_of(T) == Len(T)

\* the buf view that keeps its initial zero bytes instead of the payload
AsRawBytes_not_filled(T, n, junk) == [i \in 1..n |-> 0]

\* union AsRawBytes { cmd: T, buf: [u8; n] } initialised through cmd and read
\* through buf: the payload's bytes first, bytes past the payload uninitialised
AsRawBytes(T, n, junk) == [i \in 1..n |-> IF i <= size_of(T) THEN T[i] ELSE junk]

\* uring_op without its assertion
uring_op_unchecked(self, junk) ==
    Some([op |-> "UringCmd16", fd |-> self.fd, cmd_op |-> self.cmd_op,
          cmd |-> AsRawBytes(self.cmd, 16, junk)])

\* Cmd::uring_op: None stands for the failed assertion
uring_op(self, junk) ==
    IF size_of(self.cmd) <= 16
    THEN Some([op |-> "UringCmd16", fd |-> self.fd, cmd_op |-> self.cmd_op,
               cmd |-> AsRawBytes(self.cmd, 16, junk)])
    ELSE None

\* Cmd::uring_op_wide: None stands for the failed assertion
uring_op_wide(self, junk) ==
    IF size_of(self.cmd) <= 80
    THEN Some([op |-> "UringCmd80", fd |-> self.fd, cmd_op |-> self.cmd_op,
               cmd |-> AsRawBytes(self.cmd, 80, junk)])
    ELSE None

UringOp ==
    /\ \E junk \in JunkBytes : entry' = uring_op(cmd, junk)
    /\ called' = "uring_op"
    /\ panicked' = (entry' = None)
    /\ UNCHANGED <<cmd, ret, live, stage, builderVars, fdVars>>

UringOpWide ==
    /\ \E junk \in JunkBytes : entry' = uring_op_wide(cmd, junk)
    /\ called' = "uring_op_wide"
    /\ panicked' = (entry' = None)
    /\ UNCHANGED <<cmd, ret, live, stage, builderVars, fdVars>>

InitCmd ==
    /\ BuilderIdle
    /\ FdIdle
    /\ \E size \in CmdSizes, seed \in CmdSeeds, rawfd \in RawFds, cmd_op \in CmdOps :
        cmd = [fd |-> rawfd, cmd_op |-> cmd_op, cmd |-> Payload(size, seed)]
    /\ called = ""
    /\ entry = None
    /\ panicked = FALSE
    /\ ret = None
    /\ live = "uring"
    /\ stage = "submitted"

\* unimplemented!() or a failed assertion: the call returns no value
Panic == [panic |-> TRUE, value |-> None]
Return(v) == [panic |-> FALSE, value |-> Some(v)]

\* a legacy_interest that asks for read readiness of the descriptor
legacy_interest_read(self) == Return(<<"Read", self.fd>>)

\* Cmd::legacy_interest: unimplemented!()
legacy_interest(self) == Panic

\* Cmd::legacy_call (unix and windows): unimplemented!()
legacy_call(self) == Panic

LegacyInterest ==
    /\ called' = "legacy_interest"
    /\ ret' = legacy_interest(cmd).value
    /\ panicked' = legacy_interest(cmd).panic
    /\ entry' = None
    /\ UNCHANGED <<cmd, live, stage, builderVars, fdVars>>

LegacyCall ==
    /\ called' = "legacy_call"
    /\ ret' = legacy_call(cmd).value
    /\ panicked' = legacy_call(cmd).panic
    /\ entry' = None
    /\ UNCHANGED <<cmd, live, stage, builderVars, fdVars>>

\* the live backend takes the submitted operation: the ring backend asks the Cmd
\* for its entry, the readiness backend for its interest
DriveSubmit ==
    /\ stage = "submitted"
    /\ \E junk \in JunkBytes :
        stage' = IF live = "legacy"
                 THEN (IF legacy_interest(cmd).panic THEN "panicked" ELSE "inflight")
                 ELSE (IF uring_op(cmd, junk) = None THEN "panicked" ELSE "inflight")
    /\ UNCHANGED <<cmd, called, entry, panicked, ret, live, builderVars, fdVars>>

\* the operation finishes: the ring backend delivers the completion, the readiness
\* backend makes the legacy call once the descriptor is ready
DriveComplete ==
    /\ stage = "inflight"
    /\ stage' = IF live = "legacy" /\ legacy_call(cmd).panic THEN "panicked" ELSE "completed"
    /\ UNCHANGED <<cmd, called, entry, panicked, ret, live, builderVars, fdVars>>

\* the backends a runtime can be live on (FusionRuntime's variants)
LiveBackends == {"uring", "legacy"}

InitLegacy ==
    /\ BuilderIdle
    /\ FdIdle
    /\ \E size \in CmdSizes, seed \in CmdSeeds, rawfd \in RawFds, cmd_op \in CmdOps :
        cmd = [fd |-> rawfd, cmd_op |-> cmd_op, cmd |-> Payload(size, seed)]
    /\ live \in LiveBackends
    /\ called = ""
    /\ entry = None
    /\ panicked = FALSE
    /\ ret = None
    /\ stage = "submitted"

NextLegacy == LegacyInterest \/ LegacyCall \/ DriveSubmit \/ DriveComplete

SpecLegacy == InitLegacy /\ [][NextLegacy]_vars

\* C11: every call of Cmd::legacy_interest or Cmd::legacy_call panics and returns
\* no value, so an operation driven by a runtime whose live backend is the
\* readiness backend ends in a panic and never in flight or completed.
C11_LegacyPathPanics ==
    /\ called \in {"legacy_interest", "legacy_call"} => (panicked /\ ret = None)
    /\ live = "legacy" => stage \in {"submitted", "panicked"}

\* a Cmd driven on the readiness backend has panicked, and so did a direct legacy_call
C11_Witness ==
    /\ live = "legacy"
    /\ stage = "panicked"
    /\ called = "legacy_call"
    /\ panicked
    /\ Len(cmd.cmd) = 8

NextCmd == UringOp \/ UringOpWide

SpecCmd == InitCmd /\ [][NextCmd]_vars

\* C9: uring_op returns an entry exactly when size_of::<T>() <= 16 and fails its
\* assertion otherwise; uring_op_wide likewise with 80; an entry's region is never
\* shorter than the payload it was made from.
C9_SizeAssertions ==
    /\ called = "uring_op" =>
        /\ entry # None <=> Len(cmd.cmd) <= 16
        /\ panicked <=> Len(cmd.cmd) > 16
        /\ \A en \in entry : en.op = "UringCmd16" /\ Len(en.cmd) = 16
    /\ called = "uring_op_wide" =>
        /\ entry # None <=> Len(cmd.cmd) <= 80
        /\ panicked <=> Len(cmd.cmd) > 80
        /\ \A en \in entry : en.op = "UringCmd80" /\ Len(en.cmd) = 80
    /\ \A en \in entry : Len(cmd.cmd) <= Len(en.cmd)

\* a 20-byte payload, which the narrow entry refuses, gets a wide entry
C9_Witness ==
    /\ called = "uring_op_wide"
    /\ Len(cmd.cmd) = 20
    /\ entry # None
    /\ ~panicked

\* C10: for size_of::<T>() <= 16 uring_op returns an entry whose region starts with
\* the payload's bytes, so that reading the payload back gives the payload, and
\* which carries the Cmd's descriptor and opcode.
C10_NarrowRoundTrip ==
    (called = "uring_op" /\ Len(cmd.cmd) <= 16) =>
        /\ entry # None
        /\ \A en \in entry :
            /\ SubSeq(en.cmd, 1, Len(cmd.cmd)) = cmd.cmd
            /\ en.fd = cmd.fd
            /\ en.cmd_op = cmd.cmd_op

\* an 8-byte payload in the 16-byte region: the bytes after it are not the payload's
C10_Witness ==
    /\ called = "uring_op"
    /\ Len(cmd.cmd) = 8
    /\ cmd.cmd[8] = 57
    /\ \E en \in entry : en.cmd[8] = 57 /\ en.cmd[9] = 170 /\ en.fd = 9

====
